---- MODULE Spec2Model ----
(***************************************************************************)
(* Boot-source discovery of rust-simple-init: the Bootloader service, its  *)
(* DeviceProbe state machines (mount helper, EFI scan) and the selection   *)
(* of a boot entry, from src/src/services/bootloader.rs and                *)
(* src/src/sysfs.rs.                                                       *)
(*                                                                         *)
(* Strings are sequences of one-character strings, so that starts_with,    *)
(* to_lowercase, split_once and from_str_radix are computed, not assumed.  *)
(* What the code reads from the system (sysfs, /dev, the mount table, the  *)
(* mounted filesystem, the pid of a spawned child) is an input of the      *)
(* operation that reads it.                                                *)
(***************************************************************************)
EXTENDS Integers, Sequences, FiniteSets, TLC

(* ------------------------------ bounds -------------------------------- *)

\* pids the system hands out to children are 1..MaxPid
MaxPid == 2
\* longest listing of the EFI directory of a mounted filesystem
MaxEfi == 2
\* longest collection of probes and longest priority order given to
\* select_boot_entry
MaxProbes == 2
MaxOrder == 2
\* longest chain of directories from a backing device up to the root
MaxWalk == 2

(* ------------------------------ options ------------------------------- *)

None == [some |-> FALSE, val |-> <<>>]
Some(v) == [some |-> TRUE, val |-> v]
Ok(v) == [ok |-> TRUE, val |-> v]
Err == [ok |-> FALSE, val |-> <<>>]

(* ------------------------------ strings ------------------------------- *)

s_sda == <<"s", "d", "a">>
s_sda1 == <<"s", "d", "a", "1">>
s_loop0 == <<"l", "o", "o", "p", "0">>
s_loop0p1 == <<"l", "o", "o", "p", "0", "p", "1">>
s_dev == <<"d", "e", "v">>
s_device == <<"d", "e", "v", "i", "c", "e">>
s_disk == <<"d", "i", "s", "k">>
s_pts == <<"p", "t", "s">>
s_EFI == <<"E", "F", "I">>
s_bootx64 == <<"b", "o", "o", "t", "x", "6", "4", ".", "e", "f", "i">>
s_BOOTX64 == <<"B", "O", "O", "T", "X", "6", "4", ".", "E", "F", "I">>
s_BootX64 == <<"B", "o", "o", "t", "X", "6", "4", ".", "e", "f", "i">>
s_grubx64 == <<"g", "r", "u", "b", "x", "6", "4", ".", "e", "f", "i">>
s_bootx64bak == <<"b", "o", "o", "t", "x", "6", "4", ".", "e", "f">>

\* str::starts_with
starts_with(s, prefix) ==
    /\ Len(prefix) <= Len(s)
    /\ SubSeq(s, 1, Len(prefix)) = prefix

LowerChar(c) ==
    CASE c = "B" -> "b" [] c = "O" -> "o" [] c = "T" -> "t" [] c = "X" -> "x"
      [] c = "E" -> "e" [] c = "F" -> "f" [] c = "I" -> "i" [] c = "G" -> "g"
      [] c = "R" -> "r" [] c = "U" -> "u" [] OTHER -> c

\* str::to_lowercase
to_lowercase(s) == [i \in 1..Len(s) |-> LowerChar(s[i])]

IsDigit(c) == c \in {"0", "1", "2", "3", "4", "5", "6", "7", "8", "9"}

DigitVal(c) ==
    CASE c = "0" -> 0 [] c = "1" -> 1 [] c = "2" -> 2 [] c = "3" -> 3
      [] c = "4" -> 4 [] c = "5" -> 5 [] c = "6" -> 6 [] c = "7" -> 7
      [] c = "8" -> 8 [] c = "9" -> 9 [] OTHER -> 0

RECURSIVE DigitsVal(_)
DigitsVal(s) ==
    IF s = <<>> THEN 0
    ELSE 10 * DigitsVal(SubSeq(s, 1, Len(s) - 1)) + DigitVal(s[Len(s)])

ParseDigits(digits) ==
    IF digits = <<>> \/ \E i \in 1..Len(digits) : ~IsDigit(digits[i])
    THEN Err
    ELSE Ok(DigitsVal(digits))

\* u64::from_str_radix(s, 10): an optional "+", then one or more digits
from_str_radix(s) ==
    ParseDigits(IF s # <<>> /\ s[1] = "+" THEN Tail(s) ELSE s)

\* the position of the first c in s, or Len(s) + 1
RECURSIVE Find(_, _, _)
Find(s, c, i) ==
    IF i > Len(s) \/ s[i] = c THEN i ELSE Find(s, c, i + 1)

\* str::split_once(":")
split_once(s) ==
    IF Find(s, ":", 1) > Len(s) THEN None
    ELSE Some(<<SubSeq(s, 1, Find(s, ":", 1) - 1),
                SubSeq(s, Find(s, ":", 1) + 1, Len(s))>>)

\* sysfs::read_line_file: the first line of the file, if the file can be
\* read and is not empty
read_line_file(content) ==
    IF ~content.some \/ content.val = <<>> THEN None
    ELSE Some(SubSeq(content.val, 1, Find(content.val, "\n", 1) - 1))

(* --------------------------- file modes ------------------------------- *)

\* st_mode and the S_IF* masks as the sets of the positions of their one
\* bits: S_IFBLK is 0o060000, S_IFCHR 0o020000, S_IFDIR 0o040000, S_IFREG
\* 0o100000 and S_IFMT 0o170000
S_IFBLK == {13, 14}
S_IFCHR == {13}
S_IFDIR == {14}
S_IFREG == {15}
S_IFMT == {12, 13, 14, 15}

\* a & b
BitAnd(a, b) == a \cap b

\* a node of /dev: [name, mode, major, minor]; `meta` is the Option of the
\* node's metadata
file_is_chardev(meta, major, minor) ==
    IF meta.some
    THEN IF ~(BitAnd(meta.val.mode, S_IFBLK) # {} \/ BitAnd(meta.val.mode, S_IFCHR) # {})
         THEN FALSE
         ELSE IF meta.val.major # major THEN FALSE
         ELSE IF meta.val.minor # minor THEN FALSE
         ELSE TRUE
    ELSE FALSE

is_dir(node) == BitAnd(node.mode, S_IFMT) = S_IFDIR

\* Path::metadata of /dev/<name> in a listing of /dev
DevMetadata(devdir, name) ==
    IF \E i \in 1..Len(devdir) : devdir[i].name = name
    THEN Some(devdir[CHOOSE i \in 1..Len(devdir) : devdir[i].name = name])
    ELSE None

(* --------------------------- device node ------------------------------ *)

RECURSIVE SearchDev(_, _, _, _)
\* the loop of block_device_node over the entries of /dev
SearchDev(devdir, i, major, minor) ==
    IF i > Len(devdir) THEN Err
    ELSE IF is_dir(devdir[i]) THEN SearchDev(devdir, i + 1, major, minor)
    ELSE IF file_is_chardev(Some(devdir[i]), major, minor)
         THEN Ok(<<s_dev, devdir[i].name>>)
    ELSE SearchDev(devdir, i + 1, major, minor)

\* block_device_node once major and minor are parsed
NodeOfNumbers(name, fx, major, minor) ==
    IF ~major.ok THEN Err
    ELSE IF ~minor.ok THEN Err
    ELSE IF fx.devdir.some
            /\ file_is_chardev(DevMetadata(fx.devdir.val, name), major.val, minor.val)
         THEN Ok(<<s_dev, name>>)
    ELSE IF fx.devdir.some THEN SearchDev(fx.devdir.val, 1, major.val, minor.val)
    ELSE Err

\* block_device_node once the line is split
NodeOfParts(name, fx, parts) ==
    IF parts.some
    THEN NodeOfNumbers(name, fx, from_str_radix(parts.val[1]),
                       from_str_radix(parts.val[2]))
    ELSE Err

\* block_device_node once the dev file is read
NodeOfLine(name, fx, chardev) ==
    IF chardev.some THEN NodeOfParts(name, fx, split_once(chardev.val)) ELSE Err

\* fx.devinfo: the content of /sys/class/block/<name>/dev, if readable;
\* fx.devdir: the listing of /dev, if readable
block_device_node(name, fx) == NodeOfLine(name, fx, read_line_file(fx.devinfo))

(* --------------------------- classification --------------------------- *)

\* sysfs::read_link_file_name: the last component of the link's target;
\* `link` is the Option of the target, a sequence of components
read_link_file_name(link) ==
    IF link.some /\ link.val # <<>> /\ link.val[Len(link.val)] # ".."
    THEN Some(link.val[Len(link.val)])
    ELSE None

\* fx.sysfs describes what the sysfs reads of the classification find:
\*   canon    /sys/class/block/<name> resolves
\*   device   the directory behind <block>/device, if it exists
\*   pdevice  the directory behind <block>/../device, if it exists
\* A device directory is [subsystem, walk]: the target of its subsystem link
\* and, for the path itself and each path PathBuf::pop then yields,
\* [scsi_host, own, up]: whether the directory has an entry scsi_host, the
\* target of <dir>/subsystem and the target of <dir>/../subsystem.
block_device_path(sysfs) ==
    IF sysfs.canon
    THEN IF sysfs.device.some THEN Some(sysfs.device.val)
         ELSE IF sysfs.pdevice.some THEN Some(sysfs.pdevice.val)
         ELSE None
    ELSE None

RECURSIVE WalkFrom(_, _)
WalkFrom(walk, i) ==
    IF i > Len(walk) THEN None
    ELSE IF walk[i].scsi_host THEN Some(walk[i])
    ELSE WalkFrom(walk, i + 1)

\* sysfs::walk_path_has_subdir(devicepath, "scsi_host")
walk_path_has_subdir(devicepath) == WalkFrom(devicepath.walk, 1)

\* the scsi branch, were the subsystem link of the host directory itself read
TypeOfHost_own(host) ==
    IF host.some
       /\ read_link_file_name(host.val.own).some
       /\ read_link_file_name(host.val.own).val = "usb"
    THEN "USB"
    ELSE "Internal"

\* the scsi branch of block_device_type, host being what the walk found
TypeOfHost(host) ==
    IF host.some
       /\ read_link_file_name(host.val.up).some
       /\ read_link_file_name(host.val.up).val = "usb"
    THEN "USB"
    ELSE "Internal"

\* block_device_type once the subsystem link of the device path is read
TypeOfSubsystem(devicepath, subsystem) ==
    IF subsystem.some /\ subsystem.val = "virtio" THEN "Internal"
    ELSE IF subsystem.some /\ subsystem.val = "scsi"
         THEN TypeOfHost(walk_path_has_subdir(devicepath))
    ELSE "Other"

\* block_device_type once the device path is resolved
TypeOfPath(devicepath) ==
    IF devicepath.some
    THEN TypeOfSubsystem(devicepath.val, read_link_file_name(devicepath.val.subsystem))
    ELSE "Other"

block_device_type(sysfs) == TypeOfPath(block_device_path(sysfs))

(* ------------------------------ DeviceProbe --------------------------- *)

\* BlockState: the tag and, in Mounting, the pid of the child
NoChild == 0
Unchecked == [tag |-> "Unchecked", child |-> NoChild]
Mounting(pid) == [tag |-> "Mounting", child |-> pid]
Scanning == [tag |-> "Scanning", child |-> NoChild]
Complete == [tag |-> "Complete", child |-> NoChild]

MountPoint(name) == [base |-> "/var/run/bootloader/mounts", name |-> name]

\* DeviceProbe::new once the device node is resolved
ProbeOfNode(name, fx, chardev) ==
    IF ~chardev.ok THEN Err
    ELSE Ok([name |-> name,
             device |-> chardev.val,
             devicetype |-> block_device_type(fx.sysfs),
             point |-> MountPoint(name),
             state |-> Unchecked,
             entries |-> <<>>])

DeviceProbe_new(name, fx) == ProbeOfNode(name, fx, block_device_node(name, fx))

\* mount, were the child not kept in the state
DeviceProbe_mount_unrecorded(self, fx, child) ==
    IF self.device \in fx.mounts
    THEN [ok |-> FALSE, self |-> self, log |-> <<>>, spawn |-> FALSE]
    ELSE IF ~fx.mkdir
    THEN [ok |-> FALSE, self |-> self, log |-> <<>>, spawn |-> FALSE]
    ELSE IF child.some
    THEN [ok |-> TRUE, self |-> self, log |-> <<>>, spawn |-> TRUE]
    ELSE [ok |-> TRUE, self |-> [self EXCEPT !.state = Complete],
          log |-> <<"Complete">>, spawn |-> TRUE]

\* mount, were the mounted devices not looked up
DeviceProbe_mount_unchecked(self, fx, child) ==
    IF ~fx.mkdir
    THEN [ok |-> FALSE, self |-> self, log |-> <<>>, spawn |-> FALSE]
    ELSE IF child.some
    THEN [ok |-> TRUE, self |-> [self EXCEPT !.state = Mounting(child.val)],
          log |-> <<"Mounting">>, spawn |-> TRUE]
    ELSE [ok |-> TRUE, self |-> [self EXCEPT !.state = Complete],
          log |-> <<"Complete">>, spawn |-> TRUE]

\* fx.mounts: the devices /proc/mounts lists; fx.mkdir: create_dir_all
\* succeeds; child: what Command::spawn returns, Some(pid) or None.
\* The result is the Result, the probe, the values assigned to self.state in
\* order, and whether spawn was called.
DeviceProbe_mount(self, fx, child) ==
    IF self.device \in fx.mounts
    THEN [ok |-> FALSE, self |-> self, log |-> <<>>, spawn |-> FALSE]
    ELSE IF ~fx.mkdir
    THEN [ok |-> FALSE, self |-> self, log |-> <<>>, spawn |-> FALSE]
    ELSE IF child.some
    THEN [ok |-> TRUE, self |-> [self EXCEPT !.state = Mounting(child.val)],
          log |-> <<"Mounting">>, spawn |-> TRUE]
    ELSE [ok |-> TRUE, self |-> [self EXCEPT !.state = Complete],
          log |-> <<"Complete">>, spawn |-> TRUE]

BootEntry(kernel) == [kernel |-> kernel, initramfs |-> None, append |-> None]

RECURSIVE ScanFrom_dirs(_, _)
\* the search of scan, were directories not skipped
ScanFrom_dirs(entries, i) ==
    IF i > Len(entries) THEN None
    ELSE IF to_lowercase(entries[i].name) = to_lowercase(s_bootx64)
         THEN Some(entries[i])
    ELSE ScanFrom_dirs(entries, i + 1)

RECURSIVE ScanFrom(_, _)
\* the first entry of the listing from i on that is no directory and whose
\* lowercased name is the lowercased loader name
ScanFrom(entries, i) ==
    IF i > Len(entries) THEN None
    ELSE IF entries[i].isdir THEN ScanFrom(entries, i + 1)
    ELSE IF to_lowercase(entries[i].name) = to_lowercase(s_bootx64)
         THEN Some(entries[i])
    ELSE ScanFrom(entries, i + 1)

\* scan, were the state left as it is when nothing is found
Scanned_unsettled(self, found) ==
    IF found.some
    THEN [self |-> [self EXCEPT
                      !.state = Complete,
                      !.entries = Append(@, BootEntry(<<s_EFI, found.val.name>>))],
          log |-> <<"Complete">>, pushes |-> 1]
    ELSE [self |-> self, log |-> <<>>, pushes |-> 0]

\* scan once the directory is searched: [self, log, pushes]
Scanned(self, found) ==
    IF found.some
    THEN [self |-> [self EXCEPT
                      !.state = Complete,
                      !.entries = Append(@, BootEntry(<<s_EFI, found.val.name>>))],
          log |-> <<"Complete">>, pushes |-> 1]
    ELSE [self |-> [self EXCEPT !.state = Complete],
          log |-> <<"Complete">>, pushes |-> 0]

\* efi: the listing of <point>/EFI, if it can be read
DeviceProbe_scan(self, efi) ==
    Scanned(self, IF efi.some THEN ScanFrom(efi.val, 1) ELSE None)

success(status) == status = 0

\* the result of event when the mount succeeded and scan has run
Consumed(s) ==
    [self |-> s.self, handled |-> TRUE, log |-> <<"Scanning">> \o s.log,
     scans |-> 1, pushes |-> s.pushes]

\* the result of event when the probe does not take the event
Untouched(self) ==
    [self |-> self, handled |-> FALSE, log |-> <<>>, scans |-> 0, pushes |-> 0]

\* event, were a failed mount to put the probe back to Unchecked
DeviceProbe_event_reset(self, event, efi) ==
    IF event.type = "ProcessExited" /\ self.state.tag = "Mounting"
       /\ self.state.child = event.pid
    THEN IF ~success(event.status)
         THEN [self |-> [self EXCEPT !.state = Unchecked], handled |-> TRUE,
               log |-> <<"Unchecked">>, scans |-> 0, pushes |-> 0]
         ELSE Consumed(DeviceProbe_scan([self EXCEPT !.state = Scanning], efi))
    ELSE Untouched(self)

\* event, were the pid of the child not compared
DeviceProbe_event_anypid(self, event, efi) ==
    IF event.type = "ProcessExited" /\ self.state.tag = "Mounting"
    THEN IF ~success(event.status)
         THEN [self |-> [self EXCEPT !.state = Complete], handled |-> TRUE,
               log |-> <<"Complete">>, scans |-> 0, pushes |-> 0]
         ELSE Consumed(DeviceProbe_scan([self EXCEPT !.state = Scanning], efi))
    ELSE Untouched(self)

\* event, were scan left to a later event
DeviceProbe_event_noscan(self, event, efi) ==
    IF event.type = "ProcessExited" /\ self.state.tag = "Mounting"
       /\ self.state.child = event.pid
    THEN IF ~success(event.status)
         THEN [self |-> [self EXCEPT !.state = Complete], handled |-> TRUE,
               log |-> <<"Complete">>, scans |-> 0, pushes |-> 0]
         ELSE [self |-> [self EXCEPT !.state = Scanning], handled |-> TRUE,
               log |-> <<"Scanning">>, scans |-> 0, pushes |-> 0]
    ELSE Untouched(self)

\* The result is the probe, the return value, the values assigned to
\* self.state in order, and how often scan ran and pushed an entry.
\* event, were the state not changed when the mount has failed
DeviceProbe_event_waiting(self, event, efi) ==
    IF event.type = "ProcessExited"
    THEN IF self.state.tag = "Mounting"
         THEN IF self.state.child # event.pid THEN Untouched(self)
              ELSE IF ~success(event.status)
              THEN [self |-> self, handled |-> TRUE,
                    log |-> <<>>, scans |-> 0, pushes |-> 0]
              ELSE Consumed(DeviceProbe_scan([self EXCEPT !.state = Scanning], efi))
         ELSE Untouched(self)
    ELSE Untouched(self)

\* event, were a probe to give up when its device is removed
DeviceProbe_event_removed(self, event, efi) ==
    IF event.type = "ProcessExited"
    THEN IF self.state.tag = "Mounting"
         THEN IF self.state.child # event.pid THEN Untouched(self)
              ELSE IF ~success(event.status)
              THEN [self |-> [self EXCEPT !.state = Complete], handled |-> TRUE,
                    log |-> <<"Complete">>, scans |-> 0, pushes |-> 0]
              ELSE Consumed(DeviceProbe_scan([self EXCEPT !.state = Scanning], efi))
         ELSE Untouched(self)
    ELSE IF event.type = "Device" /\ event.action = "Remove"
            /\ event.devname = Some(self.name) /\ self.state.tag = "Mounting"
    THEN [self |-> [self EXCEPT !.state = Complete], handled |-> FALSE,
          log |-> <<"Complete">>, scans |-> 0, pushes |-> 0]
    ELSE Untouched(self)

DeviceProbe_event(self, event, efi) ==
    IF event.type = "ProcessExited"
    THEN IF self.state.tag = "Mounting"
         THEN IF self.state.child # event.pid THEN Untouched(self)
              ELSE IF ~success(event.status)
              THEN [self |-> [self EXCEPT !.state = Complete], handled |-> TRUE,
                    log |-> <<"Complete">>, scans |-> 0, pushes |-> 0]
              ELSE Consumed(DeviceProbe_scan([self EXCEPT !.state = Scanning], efi))
         ELSE Untouched(self)
    ELSE Untouched(self)

(* ------------------------------ Bootloader ---------------------------- *)

\* Every name a listing of the model holds
AllNames == {s_sda, s_sda1, s_loop0p1, s_dev, s_device}

\* What has happened for a device name so far: whether DeviceProbe::new
\* has returned a probe for it, whether Command::spawn has returned a child
\* for it, and the failures met: "construct" (DeviceProbe::new failed),
\* "mount" (mount rejected), "spawn" (spawn failed), "exit" (the helper
\* exited with a failure).
NoHist == [built |-> FALSE, spawned |-> FALSE, failed |-> {}]

\* A Bootloader with its history, b:
\*   checked  the Vec<DeviceProbe>
\*   trace    per probe of checked: the values its state has held in order,
\*            how often scan ran on it, how often an entry was pushed
\*   hist     per device name, as above
\*   live     the pids of the mount helpers that run or wait to be reaped
\*   calls    the calls of probe_partition of the current operation
Bootloader_new ==
    [checked |-> <<>>, trace |-> <<>>, hist |-> [n \in AllNames |-> NoHist],
     live |-> {}, calls |-> <<>>]

\* a call of probe_partition: the branch it took ("exists", "newerr",
\* "mounterr", "spawnfail", "mounting") and its return value
Call(name, outcome, ret) == [name |-> name, outcome |-> outcome, ret |-> ret]

\* the history of a name after mount has returned m for it
Noted(h, child, m) ==
    [h EXCEPT
       !.built = TRUE,
       !.spawned = @ \/ (m.spawn /\ child.some),
       !.failed = @ \cup (IF m.spawn /\ ~child.some THEN {"spawn"} ELSE {})
                    \cup (IF m.ok THEN {} ELSE {"mount"})]

\* the match on block.mount, were a probe whose helper did not start dropped
Mounted_started(b, name, child, m) ==
    IF m.ok /\ child.some
    THEN [b EXCEPT
            !.checked = Append(@, m.self),
            !.trace = Append(@, [log |-> <<"Unchecked">> \o m.log,
                                 scans |-> 0, pushes |-> 0]),
            !.hist[name] = Noted(@, child, m),
            !.live = @ \cup {child.val},
            !.calls = Append(@, Call(name, "mounting", TRUE))]
    ELSE [b EXCEPT
            !.hist[name] = Noted(@, child, m),
            !.calls = Append(@, Call(name, IF m.ok THEN "spawnfail" ELSE "mounterr",
                                     TRUE))]

\* the match on block.mount, were the probe put in front of the others
Mounted_front(b, name, child, m) ==
    IF m.ok
    THEN [b EXCEPT
            !.checked = <<m.self>> \o @,
            !.trace = <<[log |-> <<"Unchecked">> \o m.log,
                         scans |-> 0, pushes |-> 0]>> \o @,
            !.hist[name] = Noted(@, child, m),
            !.live = @ \cup (IF child.some THEN {child.val} ELSE {}),
            !.calls = Append(@, Call(name,
                                     IF child.some THEN "mounting" ELSE "spawnfail",
                                     TRUE))]
    ELSE [b EXCEPT
            !.hist[name] = Noted(@, child, m),
            !.calls = Append(@, Call(name, "mounterr", TRUE))]

\* the match of probe_partition on block.mount, m being what mount returned
Mounted(b, name, child, m) ==
    IF m.ok
    THEN [b EXCEPT
            !.checked = Append(@, m.self),
            !.trace = Append(@, [log |-> <<"Unchecked">> \o m.log,
                                 scans |-> 0, pushes |-> 0]),
            !.hist[name] = Noted(@, child, m),
            !.live = @ \cup (IF child.some THEN {child.val} ELSE {}),
            !.calls = Append(@, Call(name,
                                     IF child.some THEN "mounting" ELSE "spawnfail",
                                     TRUE))]
    ELSE [b EXCEPT
            !.hist[name] = Noted(@, child, m),
            !.calls = Append(@, Call(name, "mounterr", TRUE))]

\* the match of probe_partition on DeviceProbe::new, made being what new
\* returned
Constructed(b, name, fx, child, made) ==
    IF made.ok
    THEN Mounted(b, name, child, DeviceProbe_mount(made.val, fx, child))
    ELSE [b EXCEPT
            !.hist[name].failed = @ \cup {"construct"},
            !.calls = Append(@, Call(name, "newerr", FALSE))]

\* probe_partition after its loop over checked: construct, mount, push
probe_construct(b, name, fx, child) ==
    Constructed(b, name, fx, child, DeviceProbe_new(name, fx))

\* probe_partition, were checked not searched
probe_partition_unchecked(b, name, fx, child) == probe_construct(b, name, fx, child)

\* probe_partition, were the name compared with the first probe alone
probe_partition_first(b, name, fx, child) ==
    IF Len(b.checked) > 0 /\ b.checked[1].name = name
    THEN [b EXCEPT !.calls = Append(@, Call(name, "exists", FALSE))]
    ELSE probe_construct(b, name, fx, child)

\* probe_partition, were the probes that found nothing probed again
probe_partition_again(b, name, fx, child) ==
    IF \E i \in 1..Len(b.checked) :
          /\ b.checked[i].name = name
          /\ ~(b.checked[i].state.tag = "Complete" /\ b.checked[i].entries = <<>>)
    THEN [b EXCEPT !.calls = Append(@, Call(name, "exists", FALSE))]
    ELSE probe_construct(b, name, fx, child)

probe_partition(b, name, fx, child) ==
    IF \E i \in 1..Len(b.checked) : b.checked[i].name = name
    THEN [b EXCEPT !.calls = Append(@, Call(name, "exists", FALSE))]
    ELSE probe_construct(b, name, fx, child)

RECURSIVE SelectFrom(_, _, _, _)
\* the loops of select_boot_entry, at type t of order and probe i of checked
SelectFrom(checked, order, t, i) ==
    IF t > Len(order) THEN None
    ELSE IF i > Len(checked) THEN SelectFrom(checked, order, t + 1, 1)
    ELSE IF checked[i].state.tag = "Complete"
            /\ checked[i].devicetype = order[t]
            /\ Len(checked[i].entries) # 0
         THEN Some(checked[i].entries[1])
    ELSE SelectFrom(checked, order, t, i + 1)

RECURSIVE SelectProbesFirst(_, _, _, _)
\* the loops of select_boot_entry, were the loop over checked the outer one
SelectProbesFirst(checked, order, i, t) ==
    IF i > Len(checked) THEN None
    ELSE IF t > Len(order) THEN SelectProbesFirst(checked, order, i + 1, 1)
    ELSE IF checked[i].state.tag = "Complete"
            /\ checked[i].devicetype = order[t]
            /\ Len(checked[i].entries) # 0
         THEN Some(checked[i].entries[1])
    ELSE SelectProbesFirst(checked, order, i, t + 1)

select_boot_entry_probes(checked, order) == SelectProbesFirst(checked, order, 1, 1)

select_boot_entry(checked, order) == SelectFrom(checked, order, 1, 1)

\* Service::state
\* state, were a collection whose probes are all Complete reported idle
Bootloader_state_settled(b) ==
    IF \A i \in 1..Len(b.checked) : b.checked[i].state = Complete
    THEN "Inactive" ELSE "Running"

Bootloader_state(b) == IF Len(b.checked) = 0 THEN "Inactive" ELSE "Running"

\* Runtime::poll leaves its loop when exit_on_idle is set and no service
\* reports itself as Running; states: what the services report
poll_stops(exit_on_idle, states) ==
    exit_on_idle /\ \A k \in 1..Len(states) : states[k] # "Running"

\* disk is an entry of /sys/block: [name, storage, dir]; storage says that
\* /sys/block/<name>/device exists
block_device_is_storage(disk) == disk.storage

\* the input of a call for a name: the one chosen for it, if any
InputFor(inputs, name, default) ==
    IF name \in DOMAIN inputs THEN inputs[name] ELSE default

RECURSIVE StartParts(_, _, _, _, _, _)
\* the inner loop of start over the entries of the device's directory
StartParts(b, disk, j, envs, children, nominal) ==
    IF j > Len(disk.dir.val) THEN b
    ELSE IF ~starts_with(disk.dir.val[j], disk.name)
         THEN StartParts(b, disk, j + 1, envs, children, nominal)
    ELSE StartParts(probe_partition(b, disk.dir.val[j],
                                    InputFor(envs, disk.dir.val[j], nominal),
                                    InputFor(children, disk.dir.val[j], None)),
                    disk, j + 1, envs, children, nominal)

RECURSIVE StartDisks_all(_, _, _, _, _, _)
\* the outer loop of start, were devices without a backing device not skipped
StartDisks_all(b, sysblock, i, envs, children, nominal) ==
    IF i > Len(sysblock) THEN b
    ELSE StartDisks_all(IF sysblock[i].dir.some
                        THEN StartParts(b, sysblock[i], 1, envs, children, nominal)
                        ELSE b,
                        sysblock, i + 1, envs, children, nominal)

RECURSIVE StartDisks(_, _, _, _, _, _)
\* the outer loop of start over the entries of /sys/block
StartDisks(b, sysblock, i, envs, children, nominal) ==
    IF i > Len(sysblock) THEN b
    ELSE StartDisks(IF block_device_is_storage(sysblock[i]) /\ sysblock[i].dir.some
                    THEN StartParts(b, sysblock[i], 1, envs, children, nominal)
                    ELSE b,
                    sysblock, i + 1, envs, children, nominal)

\* sysblock: the listing of /sys/block, if readable; envs and children: per
\* partition name, what probe_partition reads and what spawn returns
Bootloader_start(b, sysblock, envs, children, nominal) ==
    IF sysblock.some
    THEN StartDisks([b EXCEPT !.calls = <<>>], sysblock.val, 1, envs, children, nominal)
    ELSE [b EXCEPT !.calls = <<>>]

\* listing: the entries of /sys/class/block/<name>, if readable
block_device_has_partitions(name, listing) ==
    /\ listing.some
    /\ \E i \in 1..Len(listing.val) : starts_with(listing.val[i], name)

\* one turn of the loop, were handled assigned and not or-ed
Offered_assigned(acc, event, i, r) ==
    [b |-> [acc.b EXCEPT
              !.checked[i] = r.self,
              !.trace[i] = [log |-> @.log \o r.log,
                            scans |-> @.scans + r.scans,
                            pushes |-> @.pushes + r.pushes],
              !.hist[acc.b.checked[i].name].failed =
                  @ \cup (IF r.handled /\ ~success(event.status) THEN {"exit"} ELSE {})],
     handled |-> r.handled]

\* one turn of the loop of Bootloader::event over checked: probe i has
\* returned r from its event
Offered(acc, event, i, r) ==
    [b |-> [acc.b EXCEPT
              !.checked[i] = r.self,
              !.trace[i] = [log |-> @.log \o r.log,
                            scans |-> @.scans + r.scans,
                            pushes |-> @.pushes + r.pushes],
              !.hist[acc.b.checked[i].name].failed =
                  @ \cup (IF r.handled /\ ~success(event.status) THEN {"exit"} ELSE {})],
     handled |-> acc.handled \/ r.handled]

\* the loop of Bootloader::event over checked, acc being [b, handled]
RECURSIVE OfferFrom(_, _, _, _)
OfferFrom(acc, event, efi, i) ==
    IF i > Len(acc.b.checked) THEN acc
    ELSE OfferFrom(Offered(acc, event, i,
                           DeviceProbe_event(acc.b.checked[i], event, efi)),
                   event, efi, i + 1)

\* a child that has exited is no longer alive
Reaped(b, event) ==
    [b EXCEPT !.live = IF event.type = "ProcessExited" THEN @ \ {event.pid} ELSE @]

\* Bootloader::event after its loop, were the action of the record not read
Monitor_anyaction(b, handled, event, listing, fx, child) ==
    IF handled THEN [b |-> b, ret |-> TRUE]
    ELSE IF event.type = "Device"
    THEN IF event.subsystem.some /\ event.subsystem.val = "block"
            /\ event.devname.some
            /\ ~block_device_has_partitions(event.devname.val, listing)
         THEN [b |-> probe_partition(b, event.devname.val, fx, child), ret |-> FALSE]
         ELSE [b |-> b, ret |-> FALSE]
    ELSE [b |-> b, ret |-> FALSE]

\* Bootloader::event after its loop over checked: [b, ret]
Monitor(b, handled, event, listing, fx, child) ==
    IF handled THEN [b |-> b, ret |-> TRUE]
    ELSE IF event.type = "Device"
    THEN IF event.subsystem.some /\ event.subsystem.val = "block"
            /\ event.action = "Add"
            /\ event.devname.some
            /\ ~block_device_has_partitions(event.devname.val, listing)
         THEN [b |-> probe_partition(b, event.devname.val, fx, child), ret |-> FALSE]
         ELSE [b |-> b, ret |-> FALSE]
    ELSE [b |-> b, ret |-> FALSE]

\* the loop is over: what it left
Looped(offered, event, listing, fx, child) ==
    Monitor(Reaped(offered.b, event), offered.handled, event, listing, fx, child)

\* [b, ret]: the Bootloader after the event and the return value
Bootloader_event(b, event, efi, listing, fx, child) ==
    Looped(OfferFrom([b |-> [b EXCEPT !.calls = <<>>], handled |-> FALSE],
                     event, efi, 1),
           event, listing, fx, child)

(* ------------------------------- inputs ------------------------------- *)

\* the device names that get probed: a disk and its partition
Names == {s_sda, s_sda1}

Pids == 1..MaxPid

\* exit statuses of a mount helper: success and failure
Statuses == {0, 32}

MinorChar(name) ==
    CASE name = s_sda -> "0" [] name = s_sda1 -> "1" [] OTHER -> "9"

Node(name, mode, major, minor) ==
    [name |-> name, mode |-> mode, major |-> major, minor |-> minor]

Link(bus) == Some(<<"..", "..", "bus", bus>>)
Dir(scsi_host, own, up) == [scsi_host |-> scsi_host, own |-> own, up |-> up]

\* sysfs of a virtio disk, of a partition of a USB stick, of a partition of
\* a SATA disk, of an NVMe disk, and of a device that is gone
SysfsVirtio ==
    [canon |-> TRUE,
     device |-> Some([subsystem |-> Link("virtio"),
                      walk |-> <<Dir(FALSE, Link("virtio"), Link("pci"))>>]),
     pdevice |-> None]
SysfsUsb ==
    [canon |-> TRUE,
     device |-> None,
     pdevice |-> Some([subsystem |-> Link("scsi"),
                       walk |-> <<Dir(FALSE, Link("scsi"), Link("scsi")),
                                  Dir(FALSE, None, Link("scsi")),
                                  Dir(TRUE, Link("scsi"), Link("usb"))>>])]
SysfsSata ==
    [canon |-> TRUE,
     device |-> None,
     pdevice |-> Some([subsystem |-> Link("scsi"),
                       walk |-> <<Dir(FALSE, Link("scsi"), Link("scsi")),
                                  Dir(TRUE, Link("scsi"), None)>>])]
SysfsNvme ==
    [canon |-> TRUE,
     device |-> Some([subsystem |-> Some(<<"..", "..", "class", "nvme">>),
                      walk |-> <<Dir(FALSE, None, None)>>]),
     pdevice |-> None]
SysfsGone == [canon |-> FALSE, device |-> None, pdevice |-> None]

Fx(devinfo, devdir, sysfs, mounts, mkdir) ==
    [devinfo |-> devinfo, devdir |-> devdir, sysfs |-> sysfs, mounts |-> mounts,
     mkdir |-> mkdir]

\* everything in order for the device of that name
NominalFx(name) ==
    Fx(Some(<<"8", ":", MinorChar(name), "\n">>),
       Some(<<Node(s_pts, S_IFDIR, 0, 0),
              Node(name, S_IFBLK, 8, DigitVal(MinorChar(name)))>>),
       SysfsVirtio, {}, TRUE)

\* nothing known about the device
DefaultFx == Fx(None, None, SysfsGone, {}, TRUE)

\* what a call of probe_partition can read: the nominal system; no dev
\* file, no node in /dev; the device mounted already, no mount point
DevFxs(name) ==
    LET n == NominalFx(name)
    IN  {n,
         [n EXCEPT !.devinfo = None],
         [n EXCEPT !.devdir = Some(<<Node(name, S_IFREG, 0, 0)>>)],
         [n EXCEPT !.mounts = {<<s_dev, name>>}],
         [n EXCEPT !.mkdir = FALSE]}

\* the nominal system, but for the device being mounted already
MountedFx(name) == [NominalFx(name) EXCEPT !.mounts = {<<s_dev, name>>}]

\* the nominal system, the device mounted already or not
MountedFxs(name) == {NominalFx(name), MountedFx(name)}

\* the nominal system alone
NominalFxs(name) == {NominalFx(name)}

\* whether mount, on the probe new has made, gets to Command::spawn
SpawnsOn(made, fx) == made.ok /\ DeviceProbe_mount(made.val, fx, None).spawn

\* whether a call of probe_partition that reads fx gets to Command::spawn
Spawns(name, fx) == SpawnsOn(DeviceProbe_new(name, fx), fx)

\* what spawn can return with these helpers alive
Children(alive) == {None} \cup {Some(p) : p \in Pids \ alive}

Disk(name, storage, dir) == [name |-> name, storage |-> storage, dir |-> dir]

\* listings of /sys/block: unreadable; a disk with a partition; a loop
\* device with a partition and a disk whose directory is unreadable; a disk
\* without partitions
SysBlocks ==
    {None,
     Some(<<Disk(s_sda, TRUE, Some(<<s_dev, s_device, s_sda1>>))>>),
     Some(<<Disk(s_loop0, FALSE, Some(<<s_dev, s_loop0p1>>)),
            Disk(s_sda, TRUE, None)>>),
     Some(<<Disk(s_sda, TRUE, Some(<<s_dev, s_device>>))>>)}

\* the probed names a listing of /sys/block holds
ListedNames(sysblock) ==
    IF sysblock.some
    THEN {n \in Names : \E i \in 1..Len(sysblock.val) :
              /\ sysblock.val[i].dir.some
              /\ \E j \in 1..Len(sysblock.val[i].dir.val) : sysblock.val[i].dir.val[j] = n}
    ELSE {}

\* listings of /sys/class/block/<name>: unreadable, without and with a
\* partition
Listings(name) ==
    {None, Some(<<s_dev, s_device>>), Some(<<s_device, Append(name, "1")>>)}

\* the one without a partition
PlainListings(name) == {Some(<<s_dev, s_device>>)}

NoEvent ==
    [type |-> "None", pid |-> 0, status |-> 0, action |-> "None",
     subsystem |-> None, devname |-> None]

ProcessExited(pid, status) ==
    [NoEvent EXCEPT !.type = "ProcessExited", !.pid = pid, !.status = status]

Device(action, subsystem, devname) ==
    [NoEvent EXCEPT !.type = "Device", !.action = action, !.subsystem = subsystem,
                    !.devname = devname]

\* every hotplug record over the actions, two subsystems and the names
DeviceEvents ==
    {Device(a, s, d) : a \in {"Add", "Remove", "Change"},
                       s \in {None, Some("block"), Some("tty")},
                       d \in {None} \cup {Some(n) : n \in Names}}

\* the records that add a block device, and one of each other kind
FewDeviceEvents ==
    {Device("Add", Some("block"), Some(n)) : n \in Names}
      \cup {Device("Remove", Some("block"), Some(s_sda1)),
            Device("Add", Some("tty"), Some(s_sda))}

EfiNames == {s_bootx64, s_BOOTX64, s_grubx64, s_bootx64bak}

EfiEntries == [name : EfiNames, isdir : BOOLEAN]

\* listings of <point>/EFI: unreadable, or up to MaxEfi entries of
\* different names
EfiListings ==
    {None} \cup
    {Some(l) : l \in {l \in UNION {[1..k -> EfiEntries] : k \in 0..MaxEfi} :
                        \A i, j \in 1..Len(l) : i # j => l[i].name # l[j].name}}

\* no EFI directory, the loader in it, another file in it
FewEfiListings ==
    {None,
     Some(<<[name |-> s_bootx64, isdir |-> FALSE]>>),
     Some(<<[name |-> s_grubx64, isdir |-> FALSE]>>)}

(* -------------------------------- state ------------------------------- *)

VARIABLES checked, trace, hist, live, last

vars == <<checked, trace, hist, live, last>>

\* the Bootloader of the current state
Cur ==
    [checked |-> checked, trace |-> trace, hist |-> hist, live |-> live,
     calls |-> <<>>]

\* the last operation: its event, its return value, its calls of
\* probe_partition and what it read of the system
Last(op, event, ret, calls, listing, efi) ==
    [op |-> op, event |-> event, ret |-> ret, calls |-> calls, listing |-> listing,
     efi |-> efi, order |-> <<>>, selected |-> None,
     sysblock |-> None, sysfs |-> [canon |-> FALSE, device |-> None, pdevice |-> None],
     devicetype |-> "Other"]

Init ==
    /\ checked = Bootloader_new.checked
    /\ trace = Bootloader_new.trace
    /\ hist = Bootloader_new.hist
    /\ live = Bootloader_new.live
    /\ last = Last("new", NoEvent, FALSE, <<>>, None, None)

Becomes(b) ==
    /\ checked' = b.checked
    /\ trace' = b.trace
    /\ hist' = b.hist
    /\ live' = b.live

\* the operation has left b and returned ret
Done(op, event, b, ret, listing, efi) ==
    /\ Becomes(b)
    /\ last' = Last(op, event, ret, b.calls, listing, efi)

\* Bootloader::event has returned r
Dispatched(event, r, listing, efi) == Done("event", event, r.b, r.ret, listing, efi)

\* Bootloader::start has read sysblock and left b
Started(sysblock, b) ==
    /\ Becomes(b)
    /\ last' = [Last("start", NoEvent, FALSE, b.calls, None, None)
                  EXCEPT !.sysblock = sysblock]

\* Bootloader::start on one of the listings, each partition reading one of
\* fxs[name]
StartOn(sysblocks, fxs) ==
    \E sysblock \in sysblocks :
      \E envs \in {f \in [ListedNames(sysblock) -> UNION {fxs[n] : n \in Names}] :
                     \A n \in DOMAIN f : f[n] \in fxs[n]} :
        \E children \in {f \in [ListedNames(sysblock) -> Children(live)] :
                           /\ \A n \in DOMAIN f : f[n].some => Spawns(n, envs[n])
                           /\ \A m, n \in DOMAIN f : m # n /\ f[m].some => f[m] # f[n]} :
          Started(sysblock, Bootloader_start(Cur, sysblock, envs, children, DefaultFx))

\* the events for which Bootloader::event reads /sys/class/block/<DEVNAME>
Hotplug(event) ==
    /\ event.type = "Device"
    /\ event.subsystem = Some("block")
    /\ event.action = "Add"
    /\ event.devname.some

\* the events for which Bootloader::event calls probe_partition
Probes(event, listing) ==
    Hotplug(event) /\ ~block_device_has_partitions(event.devname.val, listing)

\* Bootloader::event on one of the hotplug records; a probe_partition it
\* calls reads one of fxs[name]
DeviceEventOn(events, listings, fxs) ==
    \E event \in events :
      \E listing \in IF Hotplug(event) THEN listings[event.devname.val] ELSE {None} :
        \E fx \in IF Probes(event, listing) THEN fxs[event.devname.val]
                   ELSE {DefaultFx} :
          \E child \in IF Probes(event, listing) /\ Spawns(event.devname.val, fx)
                       THEN Children(live) ELSE {None} :
            Dispatched(event, Bootloader_event(Cur, event, None, listing, fx, child),
                       listing, None)

\* the probes that scan when the event is dispatched
Scanners(event) ==
    {i \in 1..Len(checked) :
        /\ checked[i].state.tag = "Mounting"
        /\ checked[i].state.child = event.pid
        /\ success(event.status)}

\* Bootloader::event on the exit of the child pid; a scan it runs reads one
\* of efis
ExitOn(pid, efis) ==
    \E status \in Statuses :
      \E efi \in IF Scanners(ProcessExited(pid, status)) # {} THEN efis ELSE {None} :
        \E r \in {Bootloader_event(Cur, ProcessExited(pid, status), efi, None,
                                   DefaultFx, None)} :
          Dispatched(ProcessExited(pid, status), r, None, efi)

\* Bootloader::event on the exit of a child
ProcessExitedEventOn(efis) == \E pid \in Pids : ExitOn(pid, efis)

(* The life of the probes: both names, every way a probe can fail.         *)

Start == StartOn(SysBlocks, [n \in Names |-> DevFxs(n)])

DeviceEvent ==
    DeviceEventOn(FewDeviceEvents, [n \in Names |-> PlainListings(n)],
                  [n \in Names |-> DevFxs(n)])

ProcessExitedEvent == ProcessExitedEventOn(FewEfiListings)

Next == DeviceEvent \/ ProcessExitedEvent \/ Start

Spec == Init /\ [][Next]_vars

(* Hotplug: every kind of hotplug record, the system in order.             *)

EventsDevice ==
    DeviceEventOn(DeviceEvents, [n \in Names |-> Listings(n)],
                  [n \in Names |-> NominalFxs(n)])

EventsProcessExited == ProcessExitedEventOn(FewEfiListings)

NextEvents == EventsDevice \/ EventsProcessExited

SpecEvents == Init /\ [][NextEvents]_vars

(* Mounted elsewhere: both names, each mounted already or not.              *)

MountedStart == StartOn(SysBlocks, [n \in Names |-> MountedFxs(n)])

MountedDevice ==
    DeviceEventOn(FewDeviceEvents, [n \in Names |-> PlainListings(n)],
                  [n \in Names |-> MountedFxs(n)])

MountedProcessExited == ProcessExitedEventOn(FewEfiListings)

NextMounted == MountedDevice \/ MountedProcessExited \/ MountedStart

SpecMounted == Init /\ [][NextMounted]_vars

(* Progress: start, hotplug records and exits, the system in order; a      *)
(* helper that is alive exits and its exit is dispatched.                  *)

\* /sys/block unreadable, or a disk with a partition
LiveSysBlocks ==
    {None, Some(<<Disk(s_sda, TRUE, Some(<<s_dev, s_device, s_sda1>>))>>)}

\* the records that add a block device, and the removal of the partition
LiveDeviceEvents ==
    {Device("Add", Some("block"), Some(n)) : n \in Names}
      \cup {Device("Remove", Some("block"), Some(s_sda1))}

\* no EFI directory, the loader in it
LiveEfiListings == {None, Some(<<[name |-> s_bootx64, isdir |-> FALSE]>>)}

LiveStart == StartOn(LiveSysBlocks, [n \in Names |-> NominalFxs(n)])

LiveDevice ==
    DeviceEventOn(LiveDeviceEvents, [n \in Names |-> PlainListings(n)],
                  [n \in Names |-> NominalFxs(n)])

LiveProcessExited == ProcessExitedEventOn(LiveEfiListings)

\* the exit of a helper that is alive is dispatched
HelperExit == \E pid \in live : ExitOn(pid, LiveEfiListings)

NextLive == LiveDevice \/ LiveProcessExited \/ LiveStart

\* as long as helpers are alive, the exit of one of them is dispatched; no
\* helper is spawned twice for a name, so that each of them is reached
SpecLive == Init /\ [][NextLive]_vars /\ WF_vars(HelperExit)

(* Scan: one partition, every listing of its EFI directory.                *)

ScanDevice ==
    DeviceEventOn({Device("Add", Some("block"), Some(s_sda1))},
                  [n \in Names |-> PlainListings(n)],
                  [n \in Names |-> NominalFxs(n)])

ScanProcessExited == ProcessExitedEventOn(EfiListings)

NextScan == ScanDevice \/ ScanProcessExited

SpecScan == Init /\ [][NextScan]_vars

(* Selection: select_boot_entry on the collections of up to MaxProbes      *)
(* probes and the priority orders of up to MaxOrder types.                 *)

BlockDeviceTypes == {"Other", "Internal", "USB", "Network"}

DigitChars == <<"1", "2", "3", "4", "5", "6", "7", "8", "9">>

\* what a probe holds between two operations: it is mounting, or complete
\* with no entry or one
Settled(i) ==
    {[state |-> Mounting(i), entries |-> <<>>]}
      \cup {[state |-> Complete, entries |-> e] :
               e \in {<<>>} \cup {<<BootEntry(<<s_EFI, k>>)>> : k \in {s_bootx64, s_BOOTX64}}}

\* the probes of the i-th partition of sda between two operations
SettledProbes(i) ==
    {[name |-> Append(s_sda, DigitChars[i]),
      device |-> <<s_dev, Append(s_sda, DigitChars[i])>>,
      devicetype |-> t,
      point |-> MountPoint(Append(s_sda, DigitChars[i])),
      state |-> st.state,
      entries |-> st.entries] : t \in BlockDeviceTypes \ {"Network"}, st \in Settled(i)}

RECURSIVE CollectionsOf(_)
\* the collections of k probes
CollectionsOf(k) ==
    IF k = 0 THEN {<<>>}
    ELSE {Append(c, p) : c \in CollectionsOf(k - 1), p \in SettledProbes(k)}

Collections == UNION {CollectionsOf(k) : k \in 0..MaxProbes}

Orders == UNION {[1..k -> BlockDeviceTypes] : k \in 0..MaxOrder}

\* the trace of a settled probe
SettledTrace(probe) ==
    [log |-> IF probe.state.tag = "Mounting" THEN <<"Unchecked", "Mounting">>
             ELSE IF probe.entries = <<>> THEN <<"Unchecked", "Mounting", "Complete">>
             ELSE <<"Unchecked", "Mounting", "Scanning", "Complete">>,
     scans |-> IF probe.entries = <<>> THEN 0 ELSE 1,
     pushes |-> Len(probe.entries)]

InitSelect ==
    /\ checked \in Collections
    /\ trace = [i \in 1..Len(checked) |-> SettledTrace(checked[i])]
    /\ hist = Bootloader_new.hist
    /\ live = {checked[i].state.child : i \in {j \in 1..Len(checked) :
                                                checked[j].state.tag = "Mounting"}}
    /\ last = Last("new", NoEvent, FALSE, <<>>, None, None)

\* select_boot_entry reads the Bootloader and leaves it as it is: one call
\* on each collection shows every result
Select ==
    \E order \in Orders :
      /\ last.op = "new"
      /\ last' = [Last("select", NoEvent, FALSE, <<>>, None, None) EXCEPT
                    !.order = order,
                    !.selected = select_boot_entry(checked, order)]
      /\ UNCHANGED <<checked, trace, hist, live>>

NextSelect == Select

SpecSelect == InitSelect /\ [][NextSelect]_vars

(* Classification: block_device_type on the sysfs trees whose chain from    *)
(* the backing device up has at most MaxWalk directories.                  *)

\* targets of a subsystem link: none, a bus, a class, a target without a
\* file name
BackingLinks == {None, Link("virtio"), Link("scsi"), Link("usb"), Some(<<"..">>)}

HostLinks == {None, Link("scsi"), Link("usb")}

Dirs == {Dir(h, own, up) : h \in BOOLEAN, own \in HostLinks, up \in HostLinks}

\* <block>/device exists, or <block>/../device does, or both (the first is
\* then the one taken)
Shapes == {"device", "pdevice", "both"}

SysfsOf(shape, d) ==
    [canon |-> TRUE,
     device |-> IF shape = "pdevice" THEN None ELSE Some(d),
     pdevice |-> IF shape = "device" THEN None
                 ELSE IF shape = "pdevice" THEN Some(d) ELSE SysfsUsb.pdevice]

\* the trees of real machines, a tree without a backing device, and a block
\* device that does not resolve
NamedSysfses ==
    {SysfsGone, SysfsVirtio, SysfsUsb, SysfsSata, SysfsNvme,
     [canon |-> TRUE, device |-> None, pdevice |-> None],
     [canon |-> FALSE, device |-> SysfsVirtio.device, pdevice |-> None]}

\* block_device_type reads sysfs and changes nothing; one call on one tree
ClassifyOn(sysfs) ==
    /\ last' = [Last("type", NoEvent, FALSE, <<>>, None, None)
                  EXCEPT !.sysfs = sysfs, !.devicetype = block_device_type(sysfs)]
    /\ UNCHANGED <<checked, trace, hist, live>>

Classify ==
    /\ last.op = "new"
    /\ \/ \E sysfs \in NamedSysfses : ClassifyOn(sysfs)
       \/ \E shape \in Shapes, subsystem \in BackingLinks, k \in 1..MaxWalk :
            \E walk \in [1..k -> Dirs] :
              ClassifyOn(SysfsOf(shape, [subsystem |-> subsystem, walk |-> walk]))

NextType == Classify

SpecType == Init /\ [][NextType]_vars

(* ------------------------------ properties ---------------------------- *)

\* a probe of that name is in the collection
Registered(probes, name) == \E i \in 1..Len(probes) : probes[i].name = name

\* the calls of probe_partition of the step
CallsOfStep == {last'.calls[k] : k \in 1..Len(last'.calls)}

\* the step is one operation with one call of probe_partition
OneCall == Len(last'.calls) = 1

\* the operation of the step left the Bootloader as it was
NothingChanged == UNCHANGED <<checked, trace, hist, live>>

\* the outcomes of a call that ran DeviceProbe::new to a probe
Constructing == {"mounterr", "spawnfail", "mounting"}

Rank(tag) ==
    CASE tag = "Unchecked" -> 0 [] tag = "Mounting" -> 1
      [] tag = "Scanning" -> 2 [] tag = "Complete" -> 3

Increasing(log) == \A k \in 1..(Len(log) - 1) : Rank(log[k]) < Rank(log[k + 1])

IsPrefix(s, t) == Len(s) <= Len(t) /\ SubSeq(t, 1, Len(s)) = s

\* C1: in every reachable state no two probes of the collection have the
\* same name.
UniqueNames ==
    \A i, j \in 1..Len(checked) : checked[i].name = checked[j].name => i = j

\* both names are registered and the last operation saw one of them again
UniqueNamesSeen ==
    /\ Len(checked) = 2
    /\ \E k \in 1..Len(last.calls) : last.calls[k].outcome = "exists"

\* C2 as stated: once a DeviceProbe has been constructed for a name no
\* later call constructs one, once a helper has been spawned for it no later
\* call spawns one, and a call for a name probed before changes nothing.
SightingsAreNoOps ==
    [][\A c \in CallsOfStep :
          /\ hist[c.name].built => c.outcome \notin Constructing
          /\ hist[c.name].spawned => c.outcome # "mounting"
          /\ (hist[c.name].built \/ hist[c.name].failed # {}) /\ OneCall
               => checked' = checked /\ live' = live]_vars

\* C2 amended: a name never has more than one probe in the collection nor
\* more than one helper spawned; a call of probe_partition for a name that
\* has a probe in the collection changes nothing and returns false; a call
\* for a name that has none runs DeviceProbe::new.
RegisteredSightingsAreNoOps ==
    [][/\ \A i, j \in 1..Len(checked') :
             checked'[i].name = checked'[j].name => i = j
       /\ \A c \in CallsOfStep :
             /\ hist[c.name].spawned => c.outcome # "mounting"
             /\ Registered(checked, c.name) <=> c.outcome = "exists"
             /\ c.outcome = "exists" => ~c.ret
             /\ c.outcome = "exists" /\ OneCall => NothingChanged]_vars

\* a name whose helper was spawned has been seen again
RegisteredSighting ==
    /\ last.op = "event"
    /\ last.calls = <<Call(s_sda1, "exists", FALSE)>>
    /\ hist[s_sda1].spawned
    /\ Registered(checked, s_sda1)

\* C3: the values a probe's state takes go forward in the order Unchecked,
\* Mounting, Scanning, Complete, and a Complete probe stays Complete under
\* every operation.
StateGoesForward ==
    [][/\ \A i \in 1..Len(checked) :
             /\ i <= Len(checked')
             /\ checked'[i].name = checked[i].name
             /\ IsPrefix(trace[i].log, trace'[i].log)
             /\ checked[i].state.tag = "Complete" => checked'[i].state = Complete
       /\ \A i \in 1..Len(checked') :
             /\ Increasing(trace'[i].log)
             /\ trace'[i].log[1] = "Unchecked"
             /\ trace'[i].log[Len(trace'[i].log)] = checked'[i].state.tag]_vars

\* a probe went through every state and a later exit was offered to it
WentForward ==
    /\ \E i \in 1..Len(checked) :
          trace[i].log = <<"Unchecked", "Mounting", "Scanning", "Complete">>
    /\ last.event.type = "ProcessExited"
    /\ ~last.ret

\* C4: a probe in Mounting changes only in the dispatch of a ProcessExited
\* event with the pid of its child; an exit with another pid is not consumed
\* by it and leaves it as it was.
LeavesMountingOnItsExit ==
    [][\A i \in 1..Len(checked) :
          checked[i].state.tag = "Mounting" =>
            /\ checked'[i] # checked[i] =>
                 /\ last'.op = "event"
                 /\ last'.event.type = "ProcessExited"
                 /\ last'.event.pid = checked[i].state.child
            /\ \A pid \in Pids \ {checked[i].state.child}, status \in Statuses,
                  efi \in FewEfiListings :
                 DeviceProbe_event(checked[i], ProcessExited(pid, status), efi)
                   = [self |-> checked[i], handled |-> FALSE, log |-> <<>>,
                      scans |-> 0, pushes |-> 0]
            /\ last'.op = "event" /\ last'.event.type = "ProcessExited"
                 /\ last'.event.pid # checked[i].state.child
                 => checked'[i] = checked[i] /\ trace'[i] = trace[i]]_vars

\* the exit of one helper was consumed while another probe stays in Mounting
OtherExitSeen ==
    /\ last.event.type = "ProcessExited"
    /\ last.ret
    /\ \E i \in 1..Len(checked) :
          /\ checked[i].state.tag = "Mounting"
          /\ checked[i].state.child # last.event.pid

\* C5: the dispatch of the exit of its child to a probe in Mounting is
\* consumed; with a non-zero status the probe is Complete without entries
\* and scan has not run, with status zero it has become Scanning, scan has
\* run once and it is Complete, all within the dispatch.
ExitSettlesProbe ==
    [][\A i \in 1..Len(checked) :
          /\ checked[i].state.tag = "Mounting"
          /\ last'.op = "event"
          /\ last'.event.type = "ProcessExited"
          /\ last'.event.pid = checked[i].state.child
          => /\ last'.ret
             /\ checked'[i].state = Complete
             /\ IF last'.event.status # 0
                THEN /\ checked'[i].entries = <<>>
                     /\ trace'[i] = [trace[i] EXCEPT !.log = @ \o <<"Complete">>]
                ELSE /\ trace'[i].log = trace[i].log \o <<"Scanning", "Complete">>
                     /\ trace'[i].scans = trace[i].scans + 1]_vars

\* a helper has exited with status zero and its probe has scanned
ExitSettled ==
    /\ last.event.type = "ProcessExited"
    /\ last.event.status = 0
    /\ last.ret
    /\ \E i \in 1..Len(checked) :
          /\ trace[i].log = <<"Unchecked", "Mounting", "Scanning", "Complete">>
          /\ trace[i].scans = 1

\* the files of a listing of EFI that are no directory and whose name is
\* bootx64.efi in some case
Loaders(listing) ==
    {k \in 1..Len(listing) :
        /\ ~listing[k].isdir
        /\ Len(listing[k].name) = Len(s_bootx64)
        /\ \A c \in 1..Len(s_bootx64) :
              LowerChar(listing[k].name[c]) = s_bootx64[c]}

\* what a scan of that listing is to leave in entries
EntriesOf(efi) ==
    IF efi.some /\ Loaders(efi.val) # {}
    THEN <<[kernel |-> <<s_EFI,
                         efi.val[CHOOSE k \in Loaders(efi.val) :
                                    \A m \in Loaders(efi.val) : k <= m].name>>,
            initramfs |-> None, append |-> None]>>
    ELSE <<>>

\* C6: a probe never has more than one entry; entries is written at most
\* once, by the scan that follows the exit of the mount helper with status
\* zero; that scan leaves one entry, kernel EFI/<file>, no initramfs, no
\* append, when a file of EFI that is no directory is named bootx64.efi in
\* some case, and none otherwise.
ScanWritesEntries ==
    [][/\ \A i \in 1..Len(checked') :
             /\ Len(checked'[i].entries) <= 1
             /\ trace'[i].pushes = Len(checked'[i].entries)
             /\ trace'[i].pushes <= trace'[i].scans
             /\ trace'[i].scans <= 1
             /\ i > Len(checked) => checked'[i].entries = <<>>
       /\ \A i \in 1..Len(checked) :
             IF /\ checked[i].state.tag = "Mounting"
                /\ last'.op = "event"
                /\ last'.event = ProcessExited(checked[i].state.child, 0)
             THEN /\ checked[i].entries = <<>>
                  /\ checked'[i].entries = EntriesOf(last'.efi)
                  /\ trace'[i].scans = trace[i].scans + 1
             ELSE /\ checked'[i].entries = checked[i].entries
                  /\ trace'[i].scans = trace[i].scans]_vars

\* a scan has passed a directory named like the loader and taken the file
\* after it, keeping the case of its name
ScanWroteEntry ==
    /\ last.efi = Some(<<[name |-> s_bootx64, isdir |-> TRUE],
                         [name |-> s_BOOTX64, isdir |-> FALSE]>>)
    /\ \E i \in 1..Len(checked) :
          checked[i].entries = <<BootEntry(<<s_EFI, s_BOOTX64>>)>>

\* the probes select_boot_entry may take an entry from, as <<place in
\* order, place in checked>>
Choices(probes, order) ==
    {c \in (1..Len(order)) \X (1..Len(probes)) :
        /\ probes[c[2]].state.tag = "Complete"
        /\ probes[c[2]].entries # <<>>
        /\ probes[c[2]].devicetype = order[c[1]]}

\* C7: select_boot_entry returns the first entry of the first probe met
\* when going through the types of order and, within a type, through the
\* probes in the order of their registration, looking only at Complete
\* probes with an entry; it returns none exactly when there is no such
\* probe of a type of order.
SelectsByPriority ==
    last.op = "select" =>
      /\ last.selected.some <=> Choices(checked, last.order) # {}
      /\ \A c \in Choices(checked, last.order) :
            (\A d \in Choices(checked, last.order) :
                c[1] < d[1] \/ (c[1] = d[1] /\ c[2] <= d[2]))
            => last.selected = Some(checked[c[2]].entries[1])

\* order <<USB, Internal>>; an Internal probe registered before a USB one,
\* each Complete with an entry of its own; the entry of the USB probe is
\* selected
SelectsUsbFirst ==
    /\ last.op = "select"
    /\ last.order = <<"USB", "Internal">>
    /\ Len(checked) = 2
    /\ checked[1].devicetype = "Internal" /\ checked[2].devicetype = "USB"
    /\ checked[1].state = Complete /\ checked[2].state = Complete
    /\ checked[1].entries # <<>> /\ checked[2].entries # <<>>
    /\ checked[1].entries # checked[2].entries
    /\ last.selected = Some(checked[2].entries[1])

\* a probe of that name is in the collection, Complete and without entries
SettledEmpty(probes, name) ==
    \E i \in 1..Len(probes) :
       /\ probes[i].name = name
       /\ probes[i].state = Complete
       /\ probes[i].entries = <<>>

\* C8 as stated: after a construction error, a spawn error or a non-zero
\* exit of the helper a probe of the name is Complete without entries, and
\* no later call of probe_partition constructs or mounts for that name.
ErrorsAreNeverRetried ==
    [][/\ \A i \in 1..Len(checked') :
             hist'[checked'[i].name].failed \cap {"construct", "spawn", "exit"} # {}
               => checked'[i].state = Complete /\ checked'[i].entries = <<>>
       /\ \A c \in CallsOfStep :
             hist[c.name].failed \cap {"construct", "spawn", "exit"} # {}
               => c.outcome = "exists"]_vars

\* C8 amended: after a spawn error or a non-zero exit of the helper the
\* probe of the name is in the collection, Complete without entries, and
\* every later call of probe_partition for the name returns at the
\* membership check; a construction error leaves no probe of the name, and
\* a call for a name without a probe runs DeviceProbe::new again.
StartedErrorsAreNeverRetried ==
    [][/\ \A n \in AllNames :
             hist'[n].failed \cap {"spawn", "exit"} # {} => SettledEmpty(checked', n)
       /\ \A c \in CallsOfStep :
             /\ hist[c.name].failed \cap {"spawn", "exit"} # {} => c.outcome = "exists"
             /\ c.outcome = "newerr" =>
                  /\ ~Registered(checked', c.name)
                  /\ "construct" \in hist'[c.name].failed
             /\ ~Registered(checked, c.name) => c.outcome # "exists"]_vars

\* sda1 was constructed again after a construction error and its helper has
\* failed; the helper of sda did not start, and sda has been seen again
ErrorsSeen ==
    /\ {"construct", "exit"} \subseteq hist[s_sda1].failed
    /\ "spawn" \in hist[s_sda].failed
    /\ last.calls = <<Call(s_sda, "exists", FALSE)>>

\* C9 as stated: a call of probe_partition in which DeviceProbe::new fails
\* or the spawn of the helper fails adds no probe of the name and leaves
\* the collection as it was.
FailuresAddNoProbe ==
    [][\A c \in CallsOfStep :
          c.outcome \in {"newerr", "spawnfail"} =>
            /\ ~Registered(checked', c.name)
            /\ OneCall => checked' = checked]_vars

\* C9 amended: a call of probe_partition in which DeviceProbe::new fails
\* adds no probe and leaves the collection as it was; a call in which the
\* spawn of the helper fails adds the probe, Complete and without entries.
ConstructionFailureAddsNoProbe ==
    [][\A c \in CallsOfStep :
          /\ c.outcome = "newerr" =>
               /\ ~Registered(checked', c.name)
               /\ OneCall => checked' = checked /\ trace' = trace /\ live' = live
          /\ c.outcome = "spawnfail" =>
               /\ ~Registered(checked, c.name)
               /\ SettledEmpty(checked', c.name)
               /\ OneCall =>
                    /\ checked' = Append(checked, checked'[Len(checked')])
                    /\ trace'[Len(checked')].log = <<"Unchecked", "Complete">>
                    /\ live' = live]_vars

\* the helper of sda1 did not start and its probe is in the collection
SpawnFailureSeen ==
    /\ last.calls = <<Call(s_sda1, "spawnfail", TRUE)>>
    /\ SettledEmpty(checked, s_sda1)

\* C10: the dispatch of a Device event calls probe_partition, once and with
\* DEVNAME, exactly when SUBSYSTEM is block, the action is Add, DEVNAME is
\* there and no entry of the device's directory starts with it; every other
\* Device event calls nothing, adds no probe and spawns no helper.
ProbesOnBlockAdd ==
    [][last'.op = "event" /\ last'.event.type = "Device" =>
         /\ ~last'.ret
         /\ IF /\ last'.event.subsystem = Some("block")
               /\ last'.event.action = "Add"
               /\ last'.event.devname.some
               /\ ~(/\ last'.listing.some
                    /\ \E k \in 1..Len(last'.listing.val) :
                          starts_with(last'.listing.val[k], last'.event.devname.val))
            THEN /\ Len(last'.calls) = 1
                 /\ last'.calls[1].name = last'.event.devname.val
            ELSE /\ last'.calls = <<>>
                 /\ NothingChanged]_vars

\* with sda1 probed, the record that adds the block device sda, whose
\* directory shows no partition, has had sda probed
BlockAddProbed ==
    /\ last.event = Device("Add", Some("block"), Some(s_sda))
    /\ last.listing = Some(<<s_dev, s_device>>)
    /\ last.calls = <<Call(s_sda, "mounting", TRUE)>>
    /\ Registered(checked, s_sda1)
    /\ Registered(checked, s_sda)

\* the link resolves to a target whose file name is bus
ResolvesTo(link, bus) ==
    link.some /\ link.val # <<>> /\ link.val[Len(link.val)] = bus

\* the backing device of a sysfs tree, if any
Backing(sysfs) ==
    IF ~sysfs.canon THEN None
    ELSE IF sysfs.device.some THEN sysfs.device
    ELSE sysfs.pdevice

\* the directories of the chain that have an entry scsi_host
Hosts(dev) == {k \in 1..Len(dev.walk) : dev.walk[k].scsi_host}

\* the first of them
FirstHost(dev) == dev.walk[CHOOSE k \in Hosts(dev) : \A m \in Hosts(dev) : k <= m]

\* the classification, usb saying whether the scsi chain is one of USB
Classified(sysfs, usb) ==
    IF ~Backing(sysfs).some THEN "Other"
    ELSE IF ResolvesTo(Backing(sysfs).val.subsystem, "virtio") THEN "Internal"
    ELSE IF ResolvesTo(Backing(sysfs).val.subsystem, "scsi")
         THEN IF usb THEN "USB" ELSE "Internal"
    ELSE "Other"

\* C11 as stated: block_device_type is Internal for virtio; for scsi it is
\* USB when the first directory of the chain with an entry scsi_host has its
\* own subsystem link resolving to usb, and Internal otherwise; it is Other
\* for any other or unresolved subsystem or without a backing device; it is
\* never Network.
TypeByOwnSubsystem ==
    last.op = "type" =>
      /\ last.devicetype # "Network"
      /\ last.devicetype =
           Classified(last.sysfs,
                      /\ Backing(last.sysfs).some
                      /\ Hosts(Backing(last.sysfs).val) # {}
                      /\ ResolvesTo(FirstHost(Backing(last.sysfs).val).own, "usb"))

\* C11 amended: as stated, but for scsi the link that is read is the
\* subsystem link of the parent of the first directory with an entry
\* scsi_host (<that directory>/../subsystem), not that directory's own.
TypeByParentSubsystem ==
    last.op = "type" =>
      /\ last.devicetype # "Network"
      /\ last.devicetype =
           Classified(last.sysfs,
                      /\ Backing(last.sysfs).some
                      /\ Hosts(Backing(last.sysfs).val) # {}
                      /\ ResolvesTo(FirstHost(Backing(last.sysfs).val).up, "usb"))

\* a partition of a USB stick: the host directory is on the scsi bus, its
\* parent on the usb bus, and the classification is USB
UsbClassified ==
    /\ last.op = "type"
    /\ last.sysfs = SysfsUsb
    /\ last.devicetype = "USB"

\* what identifies a probe: all of it but its state and its entries
Identity(p) ==
    [name |-> p.name, device |-> p.device, devicetype |-> p.devicetype,
     point |-> p.point]

\* C12: the collection of probes is append-only: every step keeps every probe
\* at its position with its name, device, device type and mount point, so
\* that none is removed or reordered and the length never decreases; a
\* hotplug Remove of a probed device keeps the probe.
AppendOnly ==
    [][/\ Len(checked') >= Len(checked)
       /\ \A i \in 1..Len(checked) : Identity(checked'[i]) = Identity(checked[i])
       /\ (last'.event.type = "Device" /\ last'.event.action = "Remove")
            => checked' = checked]_vars

\* both names are probed, the partition first, and the partition has just
\* been removed
RemovedKeepsProbe ==
    /\ last.event = Device("Remove", Some("block"), Some(s_sda1))
    /\ Len(checked) = 2
    /\ checked[1].name = s_sda1

\* the entries of a listing of /sys/block that have a backing device and a
\* readable directory
BackedDisks(sysblock) ==
    IF sysblock.some
    THEN {sysblock.val[i] : i \in {k \in 1..Len(sysblock.val) :
                                     /\ sysblock.val[k].storage
                                     /\ sysblock.val[k].dir.some}}
    ELSE {}

\* the entries of their directories whose name the device's name prefixes
PartitionsOf(sysblock) ==
    UNION {{d.dir.val[j] : j \in {k \in 1..Len(d.dir.val) :
                                    IsPrefix(d.name, d.dir.val[k])}} :
           d \in BackedDisks(sysblock)}

\* C13: start calls probe_partition for the partitions (the entries whose
\* name the device's name prefixes) of the devices that have a backing
\* device, and for nothing else: a device without one is skipped with its
\* partitions, and a disk without partitions gets no probe and no helper.
StartProbesPartitionsOnly ==
    [][last'.op = "start" =>
         /\ {c.name : c \in CallsOfStep} = PartitionsOf(last'.sysblock)
         /\ \A i \in (Len(checked) + 1)..Len(checked') :
              checked'[i].name \in PartitionsOf(last'.sysblock)
         /\ \A n \in DOMAIN hist : n \notin PartitionsOf(last'.sysblock)
                                     => hist'[n] = hist[n]
         /\ PartitionsOf(last'.sysblock) = {} => checked' = checked /\ live' = live]_vars

\* start has found a loop device with a partition and has probed nothing
LoopDeviceSkipped ==
    /\ last.op = "start"
    /\ last.sysblock.some
    /\ \E i \in 1..Len(last.sysblock.val) :
         /\ ~last.sysblock.val[i].storage
         /\ last.sysblock.val[i].dir = Some(<<s_dev, s_loop0p1>>)
    /\ last.calls = <<>>

\* the probe consumes the event: it waits for the helper that has exited
Consumes(p, event) ==
    /\ event.type = "ProcessExited"
    /\ p.state.tag = "Mounting"
    /\ p.state.child = event.pid

\* C14: Bootloader::event offers the event to every probe, whether or not an
\* earlier one has consumed it: each probe that consumes it leaves Mounting
\* and each other probe is as it was; the return value is true exactly when
\* some probe has consumed the event, and false for every Device event, also
\* when the event has made a probe and spawned a helper.
ReturnsWhetherConsumed ==
    [][last'.op = "event" =>
         /\ last'.ret <=> \E i \in 1..Len(checked) : Consumes(checked[i], last'.event)
         /\ \A i \in 1..Len(checked) :
              IF Consumes(checked[i], last'.event)
              THEN checked'[i].state = Complete
              ELSE checked'[i] = checked[i]
         /\ last'.event.type = "Device" => ~last'.ret]_vars

\* the exit of the helper of the first of two probes has been dispatched:
\* the first probe has consumed it, the second still waits for its own
\* helper, and the return value is true
ConsumedByFirst ==
    /\ last.op = "event"
    /\ last.event.type = "ProcessExited"
    /\ last.ret
    /\ Len(checked) = 2
    /\ checked[1].state = Complete
    /\ checked[2].state.tag = "Mounting"
    /\ checked[2].state.child # last.event.pid

\* C15: state is a function of the collection alone: Inactive while it is
\* empty, Running otherwise, never another value; once a probe is in the
\* collection the state is Running in every later state, also when every
\* probe is Complete, so that a poll loop with exit_on_idle does not stop on
\* the Bootloader's account.
StateFollowsCollection ==
    /\ [](/\ Bootloader_state(Cur) \in {"Inactive", "Running"}
          /\ Bootloader_state(Cur) = "Inactive" <=> checked = <<>>
          /\ Bootloader_state(Cur) = Bootloader_state([Cur EXCEPT !.trace = <<>>,
                                                                  !.hist = [n \in DOMAIN hist |-> NoHist],
                                                                  !.live = {}])
          /\ checked # <<>> => ~poll_stops(TRUE, <<Bootloader_state(Cur)>>))
    /\ [][checked # <<>> =>
            /\ Bootloader_state([Cur EXCEPT !.checked = checked']) = "Running"
            /\ ~poll_stops(TRUE, <<Bootloader_state([Cur EXCEPT !.checked = checked'])>>)]_vars

\* both probes are Complete and the state is Running
RunningWhenSettled ==
    /\ Len(checked) = 2
    /\ \A i \in 1..Len(checked) : checked[i].state = Complete
    /\ Bootloader_state(Cur) = "Running"

\* C16: no probe consumes a Device event, whatever its action and its device
\* name, and no Device event changes an existing probe; a probe in Mounting
\* stays as it is under every Device event and every exit of a process that
\* is not its helper, also when its own device is removed.
DeviceEventsLeaveProbes ==
    [][last'.op = "event" =>
         /\ last'.event.type = "Device" =>
              /\ ~last'.ret
              /\ \A i \in 1..Len(checked) :
                   checked'[i] = checked[i] /\ trace'[i] = trace[i]
         /\ \A i \in 1..Len(checked) :
              (checked[i].state.tag = "Mounting" /\ ~Consumes(checked[i], last'.event))
                => checked'[i] = checked[i]]_vars

\* the partition is being mounted and a Remove record for it has just been
\* dispatched
RemovedWhileMounting ==
    /\ last.op = "event"
    /\ last.event.type = "Device"
    /\ last.event.action = "Remove"
    /\ \E i \in 1..Len(checked) :
         /\ last.event.devname = Some(checked[i].name)
         /\ checked[i].state.tag = "Mounting"

\* mount on the probe new makes for the name, its device mounted already
MountOfMounted(name, child) ==
    DeviceProbe_mount(DeviceProbe_new(name, MountedFx(name)).val, MountedFx(name), child)

\* C17: when the device node of a newly constructed probe is mounted
\* already, mount returns an error without spawning a helper and leaves the
\* probe Unchecked, and probe_partition leaves the collection as it was.
MountedDeviceIsRejected ==
    /\ [](\A name \in Names, child \in Children(live) :
            /\ DeviceProbe_new(name, MountedFx(name)).ok
            /\ ~MountOfMounted(name, child).ok
            /\ ~MountOfMounted(name, child).spawn
            /\ MountOfMounted(name, child).self.state = Unchecked
            /\ ~Registered(checked, name) =>
                 /\ probe_partition(Cur, name, MountedFx(name), child).checked = checked
                 /\ probe_partition(Cur, name, MountedFx(name), child).live = live
                 /\ probe_partition(Cur, name, MountedFx(name), child).calls
                      = <<Call(name, "mounterr", TRUE)>>)
    /\ [][\A c \in CallsOfStep :
            c.outcome = "mounterr" =>
              /\ checked' = checked
              /\ trace' = trace
              /\ live' = live
              /\ hist'[c.name].spawned = hist[c.name].spawned]_vars

\* the disk is probed, and the partition, mounted already, has just been
\* rejected
MountedRejected ==
    /\ Len(last.calls) = 1
    /\ last.calls[1] = Call(s_sda1, "mounterr", TRUE)
    /\ Len(checked) = 1
    /\ checked[1].name = s_sda

\* the probes that wait for the helper pid
Waiting(probes, pid) ==
    {i \in 1..Len(probes) : probes[i].state.tag = "Mounting"
                              /\ probes[i].state.child = pid}

\* the probes that the step moves out of Mounting
LeftMounting ==
    {i \in 1..Len(checked) : checked[i].state.tag = "Mounting"
                               /\ checked'[i].state.tag # "Mounting"}

\* C18: every live helper has exactly one probe, which is in the collection
\* and in Mounting with the helper's pid, so that no two probes wait for the
\* same pid and no helper can exit before its probe waits for it; the
\* dispatch of an exit moves at most one probe out of Mounting, the one that
\* spawned the helper, which consumes it.
ExitGoesToItsProbe ==
    /\ [](/\ \A pid \in live : Cardinality(Waiting(checked, pid)) = 1
          /\ \A pid \in Pids \ live : Waiting(checked, pid) = {})
    /\ [][last'.op = "event" /\ last'.event.type = "ProcessExited" =>
            /\ Cardinality(LeftMounting) <= 1
            /\ LeftMounting = Waiting(checked, last'.event.pid)
            /\ last'.ret <=> last'.event.pid \in live
            /\ live' = live \ {last'.event.pid}]_vars
    /\ [][last'.op # "event" \/ last'.event.type # "ProcessExited" =>
            /\ LeftMounting = {}
            /\ \A pid \in live' \ live :
                 Waiting(checked', pid) \ (1..Len(checked)) # {}]_vars

\* two helpers were alive, the second probe's has exited and the first
\* probe still waits for its own
SecondHelperExited ==
    /\ last.op = "event"
    /\ last.event.type = "ProcessExited"
    /\ last.ret
    /\ Len(checked) = 2
    /\ checked[2].state = Complete
    /\ checked[1].state.tag = "Mounting"
    /\ live = {checked[1].state.child}

\* C19: between two operations every probe of the collection is in Mounting
\* or in Complete; Unchecked and Scanning are held only inside the operation
\* that passes through them.
ProbesRestInMountingOrComplete ==
    \A i \in 1..Len(checked) :
      /\ checked[i].state.tag \in {"Mounting", "Complete"}
      /\ trace[i].log[1] = "Unchecked"
      /\ trace[i].log[Len(trace[i].log)] = checked[i].state.tag

\* one probe has been through Unchecked, Mounting and Scanning and is
\* Complete, the other is in Mounting
PassedThroughScanning ==
    /\ Len(checked) = 2
    /\ trace[1].log = <<"Unchecked", "Mounting", "Scanning", "Complete">>
    /\ checked[1].state = Complete
    /\ checked[2].state.tag = "Mounting"

\* the probe of the name, if there is one, is Complete
CompleteIfProbed(name) ==
    \A i \in 1..Len(checked) : checked[i].name = name => checked[i].state = Complete

\* C20: if every helper that is alive exits and its exit is dispatched, every
\* probe of the collection is eventually Complete and stays Complete for
\* ever, whatever hotplug records, exits and starts come in between.
ProbesSettle ==
    \A name \in Names :
      [](Registered(checked, name) => <>[](Registered(checked, name)
                                            /\ CompleteIfProbed(name)))

\* both names are probed, both probes are Complete after their helpers have
\* exited, and no helper is alive
AllSettled ==
    /\ Len(checked) = 2
    /\ \A i \in 1..Len(checked) :
         /\ checked[i].state = Complete
         /\ "Mounting" \in {trace[i].log[k] : k \in 1..Len(trace[i].log)}
    /\ live = {}

====
